---- MODULE Spec2Model ----
(***************************************************************************)
(* Model of qgis2fds geometry.py: the reshaping of a flat, column-ordered  *)
(* stream of quad-cell centre points into a matrix (_get_matrix), the face *)
(* connectivity (_get_faces), the vertices obtained by averaging centres   *)
(* padded with ghost centres (_get_verts) and the staged driver            *)
(* get_geometry with its cancellation polls.                               *)
(*                                                                         *)
(* Conventions.  Python lists and tuples are TLA+ sequences, so a 0-based  *)
(* Python index k is the 1-based TLA+ index k+1; operators that carry a    *)
(* Python index (i, j, len_vrow) keep its 0-based value.  A sample is      *)
(* <<x, y, z, landuse>>.  A float obtained by a division is kept exact as  *)
(* the pair <<numerator, denominator>>.  An exception is the name of its   *)
(* class, held in the variable result.                                     *)
(***************************************************************************)
EXTENDS Integers, Sequences, FiniteSets

VARIABLES
    layer,        \* the features of the layer: <<g.x(), g.y(), g.z(), a[5]>>
    utm_origin,   \* <<utm_origin.x(), utm_origin.y()>>
    oneShot,      \* layer.getFeatures() is a one-shot iterator (TRUE) or a list
    canceled,     \* the flag feedback.isCanceled() reads
    pc,           \* position of the running call
    matrix,       \* the list of rows the stages share (mutable, by reference)
    grid0,        \* the caller's matrix as it was when the call started
    faces,
    landuses,
    landuses_set,
    verts,
    result,       \* "pending", "returned", "{}", "tuple" or an exception class
    log           \* the calls received by feedback, in order

vars == <<layer, utm_origin, oneShot, canceled, pc, matrix, grid0, faces,
          landuses, landuses_set, verts, result, log>>

(***************************************************************************)
(* Bounds of the inputs                                                    *)
(***************************************************************************)
MaxRows == 2

MaxCols == 3

MaxSpacing == 2

MaxSkew == 1

MaxColLen == 4

MaxSamples == 9

LanduseCodes == {0, 1}

Elevations == {0, 1}

Origins == { <<0, 0>>, <<3, 5>> }

\* an attribute is <<value>>, or None when the field is NULL
None == <<>>

(***************************************************************************)
(* Generic helpers: Python's sum, min and range                            *)
(***************************************************************************)
RECURSIVE Sum(_)
Sum(l) == IF l = <<>> THEN 0 ELSE Head(l) + Sum(Tail(l))

Min(S) == CHOOSE m \in S : \A n \in S : m <= n

(***************************************************************************)
(* Face Builder                                                            *)
(***************************************************************************)
_get_vert_index_off0(i, j, len_vrow) == i * len_vrow + j

_get_vert_index(i, j, len_vrow) == i * len_vrow + j + 1

_get_f1_swapped(i, j, len_vrow) ==
    << _get_vert_index(i, j, len_vrow),
       _get_vert_index(i, j + 1, len_vrow),
       _get_vert_index(i + 1, j, len_vrow) >>

_get_f1(i, j, len_vrow) ==
    << _get_vert_index(i, j, len_vrow),
       _get_vert_index(i + 1, j, len_vrow),
       _get_vert_index(i, j + 1, len_vrow) >>

_get_f2(i, j, len_vrow) ==
    << _get_vert_index(i + 1, j + 1, len_vrow),
       _get_vert_index(i, j + 1, len_vrow),
       _get_vert_index(i + 1, j, len_vrow) >>

\* the inner loop of _get_faces: for j, p in enumerate(row), from index j on
RECURSIVE FacesOfRow(_, _, _, _)
FacesOfRow(i, row, j, len_vrow) ==
    IF j >= Len(row) THEN <<>>
    ELSE << _get_f1(i, j, len_vrow), _get_f2(i, j, len_vrow) >>
         \o FacesOfRow(i, row, j + 1, len_vrow)

RECURSIVE LandusesOfRow(_, _)
LandusesOfRow(row, j) ==
    IF j >= Len(row) THEN <<>>
    ELSE << row[j + 1][4], row[j + 1][4] >> \o LandusesOfRow(row, j + 1)

\* the outer loop of _get_faces: for i, row in enumerate(matrix), from row i on
RECURSIVE FacesLoop(_, _, _)
FacesLoop(m, i, len_vrow) ==
    IF i >= Len(m) THEN [faces |-> <<>>, landuses |-> <<>>]
    ELSE LET rest == FacesLoop(m, i + 1, len_vrow)
         IN  [faces    |-> FacesOfRow(i, m[i + 1], 0, len_vrow) \o rest.faces,
              landuses |-> LandusesOfRow(m[i + 1], 0) \o rest.landuses]

\* matrix[0] of an empty matrix raises IndexError
_get_faces(m) ==
    IF m = <<>>
    THEN [raised |-> "IndexError", faces |-> <<>>, landuses |-> <<>>]
    ELSE LET len_vrow == Len(m[1]) + 1
             out == FacesLoop(m, 0, len_vrow)
         IN  [raised |-> "no", faces |-> out.faces, landuses |-> out.landuses]

(***************************************************************************)
(* Direct call of _get_faces on a rectangular grid                         *)
(***************************************************************************)
\* cell (i, j), 0-based, is at x = j, y = i and has landuse lu[i+1][j+1]
FaceGrid(R, C, lu) ==
    [r \in 1..R |-> [c \in 1..C |-> << c - 1, r - 1, 0, lu[r][c] >>]]

InitFaces ==
    /\ \E R \in 1..MaxRows, C \in 1..MaxCols :
          \E lu \in [1..R -> [1..C -> LanduseCodes]] :
              matrix = FaceGrid(R, C, lu)
    /\ grid0 = matrix
    /\ layer = <<>>
    /\ utm_origin = <<0, 0>>
    /\ oneShot = FALSE
    /\ canceled = FALSE
    /\ pc = "call"
    /\ faces = <<>>
    /\ landuses = <<>>
    /\ landuses_set = {}
    /\ verts = <<>>
    /\ result = "pending"
    /\ log = <<>>

FacesCall ==
    /\ pc = "call"
    /\ LET out == _get_faces(matrix)
       IN  /\ faces' = out.faces
           /\ landuses' = out.landuses
           /\ result' = IF out.raised = "no" THEN "returned" ELSE out.raised
    /\ pc' = "done"
    /\ UNCHANGED <<layer, utm_origin, oneShot, canceled, matrix, grid0,
                   landuses_set, verts, log>>

NextFaces == FacesCall

SpecFaces == InitFaces /\ [][NextFaces]_vars

\* C1: on a grid of R >= 1 rows and C >= 1 columns _get_faces returns 2*R*C
\* faces and 2*R*C landuses, and the faces at 0-based positions 2*(i*C+j) and
\* 2*(i*C+j)+1 are (idx(i,j), idx(i+1,j), idx(i,j+1)) and
\* (idx(i+1,j+1), idx(i,j+1), idx(i+1,j)) with idx(i,j) = i*(C+1)+j+1, both
\* tagged with the landuse of cell (i, j).
C1_FacesOfGrid ==
    (pc = "done") =>
        LET R == Len(grid0)
            C == Len(grid0[1])
            idx(i, j) == i * (C + 1) + j + 1
        IN  /\ result = "returned"
            /\ Len(faces) = 2 * R * C
            /\ Len(landuses) = 2 * R * C
            /\ \A i \in 0..(R - 1) : \A j \in 0..(C - 1) :
                  LET k == 2 * (i * C + j)
                  IN  /\ faces[k + 1] = <<idx(i, j), idx(i + 1, j), idx(i, j + 1)>>
                      /\ faces[k + 2] = <<idx(i + 1, j + 1), idx(i, j + 1), idx(i + 1, j)>>
                      /\ landuses[k + 1] = grid0[i + 1][j + 1][4]
                      /\ landuses[k + 2] = grid0[i + 1][j + 1][4]

C1_Witness ==
    /\ pc = "done"
    /\ Len(grid0) = 2
    /\ Len(grid0[1]) = 3
    /\ Len(faces) = 12
    /\ grid0[2][2][4] # grid0[2][3][4]
    /\ grid0[1][1][4] # grid0[2][1][4]

(***************************************************************************)
(* Vertex Reconstructor                                                    *)
(***************************************************************************)
\* list(map(fsub, zip(p, q))) and list(map(fadd, zip(p, q)))
MapSub(p, q) == [k \in 1..Min({Len(p), Len(q)}) |-> p[k] - q[k]]

MapAdd(p, q) == [k \in 1..Min({Len(p), Len(q)}) |-> p[k] + q[k]]

\* a displacement left with its vertical component
KeepElevation(d) == d

\* dx[2], dy[2] = 0.0, 0.0
ZeroElevation(d) == [d EXCEPT ![3] = 0]

Displacement(p, q) == ZeroElevation(MapSub(p, q))

\* matrix.insert(0, row) with row built from matrix[0] and dy
InsertFirstGhostRow(m, dy) ==
    << [c \in 1..Len(m[1]) |-> MapSub(m[1][c], dy)] >> \o m

\* matrix.append(row) with row built from matrix[-1] and dy
AppendLastGhostRow(m, dy) ==
    m \o << [c \in 1..Len(m[Len(m)]) |-> MapAdd(m[Len(m)][c], dy)] >>

\* a row padded at its head only
GhostColsOfRowHeadOnly(row, dx) ==
    << MapSub(row[1], dx) >> \o row

\* row.insert(0, gc); row.append(gc) for one row
GhostColsOfRow(row, dx) ==
    << MapSub(row[1], dx) >> \o row \o << MapAdd(row[Len(row)], dx) >>

InsertGhostCols(m, dx) == [r \in 1..Len(m) |-> GhostColsOfRow(m[r], dx)]

\* The matrix as _inject_ghost_centers leaves it, or the IndexError raised by
\* matrix[0][1], matrix[1][0] or matrix[0][0] before anything is changed.
_inject_ghost_centers(m) ==
    IF \/ Len(m) < 2
       \/ Len(m[1]) < 2
       \/ Len(m[2]) < 1
    THEN [raised |-> "IndexError", matrix |-> m]
    ELSE LET dx == Displacement(m[1][2], m[1][1])
             dy == Displacement(m[2][1], m[1][1])
         IN  [raised |-> "no",
              matrix |-> InsertGhostCols(
                             AppendLastGhostRow(InsertFirstGhostRow(m, dy), dy), dx)]

\* p[:-1]
DropLast(p) == SubSeq(p, 1, Len(p) - 1)

_get_neighbour_centers_same_row(prev_row, row, j) ==
    << DropLast(row[j + 1]), DropLast(row[j + 2]),
       DropLast(row[j + 1]), DropLast(row[j + 2]) >>

_get_neighbour_centers(prev_row, row, j) ==
    << DropLast(prev_row[j + 1]), DropLast(prev_row[j + 2]),
       DropLast(row[j + 1]), DropLast(row[j + 2]) >>

\* sum(l) / len(l), kept as the exact fraction <<sum, len>>
_avg(l) == << Sum(l), Len(l) >>

\* tuple(map(_avg, zip(*neighbour_centers)))
_get_vert(neighbour_centers) ==
    LET n == Min({Len(neighbour_centers[c]) : c \in 1..Len(neighbour_centers)})
    IN  [k \in 1..n |->
            _avg([c \in 1..Len(neighbour_centers) |-> neighbour_centers[c][k]])]

\* the inner loop of _get_verts: for j, _ in enumerate(row[:-1]), from index j on
RECURSIVE VertsOfRow(_, _, _)
VertsOfRow(prev_row, row, j) ==
    IF j >= Len(row) - 1 THEN <<>>
    ELSE << _get_vert(_get_neighbour_centers(prev_row, row, j)) >>
         \o VertsOfRow(prev_row, row, j + 1)

\* the outer loop of _get_verts: for row in matrix[1:], from TLA+ row r on,
\* prev_row being the row before it
RECURSIVE VertsLoop(_, _)
VertsLoop(m, r) ==
    IF r > Len(m) THEN <<>>
    ELSE VertsOfRow(m[r - 1], m[r], 0) \o VertsLoop(m, r + 1)

\* verts returned and the matrix argument as the call leaves it
_get_verts(m) ==
    LET inj == _inject_ghost_centers(m)
    IN  IF inj.raised # "no"
        THEN [raised |-> inj.raised, matrix |-> inj.matrix, verts |-> <<>>]
        ELSE [raised |-> "no", matrix |-> inj.matrix,
              verts |-> VertsLoop(inj.matrix, 2)]

(***************************************************************************)
(* Direct call of _get_verts on a rectangular grid                         *)
(***************************************************************************)
\* cell (i, j), 0-based, has elevation z[i+1][j+1], is at x = j * sx + i and at
\* y = i * sy + z (a sheared, irregular lattice), and has landuse (i + j) % 2
VertGrid(R, C, z, sx, sy) ==
    [r \in 1..R |-> [c \in 1..C |->
        << (c - 1) * sx + (r - 1), (r - 1) * sy + z[r][c],
           z[r][c], (r + c) % 2 >>]]

InitVerts ==
    /\ \E R \in 1..MaxRows, C \in 1..MaxCols :
          \E z \in [1..R -> [1..C -> Elevations]] :
              \E sx \in 1..MaxSpacing, sy \in 1..MaxSpacing :
                  matrix = VertGrid(R, C, z, sx, sy)
    /\ grid0 = matrix
    /\ layer = <<>>
    /\ utm_origin = <<0, 0>>
    /\ oneShot = FALSE
    /\ canceled = FALSE
    /\ pc = "call"
    /\ faces = <<>>
    /\ landuses = <<>>
    /\ landuses_set = {}
    /\ verts = <<>>
    /\ result = "pending"
    /\ log = <<>>

VertsCall ==
    /\ pc = "call"
    /\ LET out == _get_verts(matrix)
       IN  /\ verts' = out.verts
           /\ matrix' = out.matrix
           /\ result' = IF out.raised = "no" THEN "returned" ELSE out.raised
    /\ pc' = "done"
    /\ UNCHANGED <<layer, utm_origin, oneShot, canceled, grid0, faces,
                   landuses, landuses_set, log>>

NextVerts == VertsCall

SpecVerts == InitVerts /\ [][NextVerts]_vars

\* equality of two exact fractions
RatEq(a, b) == a[1] * b[2] = b[1] * a[2]

\* the grid of the call had at least 2 rows and 2 columns
AtLeast2x2 == Len(grid0) >= 2 /\ Len(grid0[1]) >= 2

\* The padded grid as the specification describes it, written from grid0:
\* entry (i, j), 0-based, of the (R+2) x (C+2) padded grid, positions only.
PaddedPos(i, j) ==
    LET R  == Len(grid0)
        C  == Len(grid0[1])
        g(a, b) == grid0[a + 1][b + 1]
        dx == << g(0, 1)[1] - g(0, 0)[1], g(0, 1)[2] - g(0, 0)[2], 0 >>
        dy == << g(1, 0)[1] - g(0, 0)[1], g(1, 0)[2] - g(0, 0)[2], 0 >>
        ri == IF i = 0 THEN 0 ELSE IF i = R + 1 THEN R - 1 ELSE i - 1
        cj == IF j = 0 THEN 0 ELSE IF j = C + 1 THEN C - 1 ELSE j - 1
        sy == IF i = 0 THEN -1 ELSE IF i = R + 1 THEN 1 ELSE 0
        sx == IF j = 0 THEN -1 ELSE IF j = C + 1 THEN 1 ELSE 0
    IN  [k \in 1..3 |-> g(ri, cj)[k] + sy * dy[k] + sx * dx[k]]

\* C3: on a grid of R >= 2 rows and C >= 2 columns _get_verts returns
\* (R+1)*(C+1) vertices, and the vertex at 0-based position i*(C+1)+j is the
\* component-wise mean of padded[i][j], padded[i][j+1], padded[i+1][j] and
\* padded[i+1][j+1], landuse dropped.
C3_VertsAreMeans ==
    (pc = "done" /\ AtLeast2x2) =>
        LET R == Len(grid0)
            C == Len(grid0[1])
        IN  /\ result = "returned"
            /\ Len(verts) = (R + 1) * (C + 1)
            /\ \A i \in 0..R : \A j \in 0..C :
                  LET v == verts[i * (C + 1) + j + 1]
                  IN  /\ Len(v) = 3
                      /\ \A k \in 1..3 :
                            RatEq(v[k], << PaddedPos(i, j)[k] + PaddedPos(i, j + 1)[k]
                                           + PaddedPos(i + 1, j)[k]
                                           + PaddedPos(i + 1, j + 1)[k], 4 >>)

C3_Witness ==
    /\ pc = "done"
    /\ Len(grid0) = 2
    /\ Len(grid0[1]) = 3
    /\ Len(verts) = 12
    /\ grid0[1][1][3] # grid0[2][1][3]
    /\ grid0[1][1][3] # grid0[1][2][3]
    /\ grid0[2][1][1] # grid0[1][1][1]

\* C5 as stated: _get_verts leaves the caller's matrix as it was.
C5_MatrixUntouched ==
    (pc = "done" /\ AtLeast2x2) => matrix = grid0

\* C5 as amended: _get_verts pads the caller's matrix in place: after the call
\* it has R+2 rows of C+2 entries, the inner R x C block are the samples of
\* the grid before the call, and the outer ring are the ghost centres.
C5_MatrixPaddedInPlace ==
    (pc = "done" /\ AtLeast2x2) =>
        LET R == Len(grid0)
            C == Len(grid0[1])
        IN  /\ Len(matrix) = R + 2
            /\ \A r \in 1..(R + 2) : Len(matrix[r]) = C + 2
            /\ \A i \in 1..R : \A j \in 1..C : matrix[i + 1][j + 1] = grid0[i][j]
            /\ \A i \in 0..(R + 1) : \A j \in 0..(C + 1) :
                  DropLast(matrix[i + 1][j + 1]) = PaddedPos(i, j)

C5_Witness ==
    /\ pc = "done"
    /\ result = "returned"
    /\ Len(grid0) = 2
    /\ Len(grid0[1]) = 3
    /\ Len(matrix) = 4
    /\ matrix # grid0

\* the real cells around corner (i, j) of the lattice, 0-based
RealNeighbours(i, j) ==
    { <<a, b>> \in {i - 1, i} \X {j - 1, j} :
        a >= 0 /\ a < Len(grid0) /\ b >= 0 /\ b < Len(grid0[1]) }

RECURSIVE SumElevations(_)
SumElevations(S) ==
    IF S = {} THEN 0
    ELSE LET c == CHOOSE c \in S : TRUE
         IN  grid0[c[1] + 1][c[2] + 1][3] + SumElevations(S \ {c})

\* C9: every vertex on the boundary of the corner lattice has as elevation the
\* mean of the elevations of its real neighbouring cells only (one cell at a
\* lattice corner, two along an edge); ghost centres add no elevation.
C9_BoundaryElevation ==
    (pc = "done" /\ AtLeast2x2) =>
        LET R == Len(grid0)
            C == Len(grid0[1])
        IN  /\ result = "returned"
            /\ \A i \in 0..R : \A j \in 0..C :
                  (i = 0 \/ i = R \/ j = 0 \/ j = C) =>
                      /\ Cardinality(RealNeighbours(i, j)) \in {1, 2}
                      /\ RatEq(verts[i * (C + 1) + j + 1][3],
                               << SumElevations(RealNeighbours(i, j)),
                                  Cardinality(RealNeighbours(i, j)) >>)

C9_Witness ==
    /\ pc = "done"
    /\ result = "returned"
    /\ Len(grid0) = 2
    /\ Len(grid0[1]) = 3
    /\ grid0[1][1][3] = 0
    /\ grid0[1][2][3] = 1
    /\ grid0[2][1][3] = 1
    /\ RatEq(verts[2][3], <<1, 2>>)
    /\ RatEq(verts[1][3], <<0, 1>>)

(***************************************************************************)
(* Grid Reshaper                                                           *)
(***************************************************************************)
\* _norm(vector) ** 2: the norm is kept squared, so that it stays an integer
Norm2(vector) == vector[1] * vector[1] + vector[2] * vector[2]

\* abs(...) > 0.1 at line 102, as 1 / 0.1
InverseTolerance == 10

\* _dot_product(p0, p1, p2) is num / sqrt(den2); with den2 = 0 the float
\* division raises ZeroDivisionError
_dot_product(p0, p1, p2) ==
    LET v0 == << p1[1] - p0[1], p1[2] - p0[2] >>
        v1 == << p2[1] - p0[1], p2[2] - p0[2] >>
    IN  [raised |-> IF Norm2(v0) * Norm2(v1) = 0 THEN "ZeroDivisionError" ELSE "no",
         num    |-> v0[1] * v1[1] + v0[2] * v1[2],
         den2   |-> Norm2(v0) * Norm2(v1)]

\* abs(cos) > 0.1, i.e. (10 * num)^2 > den2
SameColumn(cos) ==
    (InverseTolerance * cos.num) * (InverseTolerance * cos.num) > cos.den2

\* point of the first loop: (g.x() - ox, g.y() - oy)
Point2(f, origin) == << f[1] - origin[1], f[2] - origin[2] >>

\* a[5] or 0
LanduseOf(attr) == IF attr = None THEN 0 ELSE attr[1]

\* point of the second loop: (g.x() - ox, g.y() - oy, g.z(), a[5] or 0)
Point4(f, origin) == << f[1] - origin[1], f[2] - origin[2], f[3], LanduseOf(f[4]) >>

\* The first loop of _get_matrix from feature k (1-based) on.  consumed is the
\* number of features the loop has taken from the iterator when it ends (the
\* feature that breaks the loop included); column_len is 0 while unbound.
RECURSIVE ScanColumn(_, _, _, _, _, _)
ScanColumn(feats, k, first_point, second_point, column_len, origin) ==
    IF k > Len(feats)
    THEN [raised |-> "no", column_len |-> column_len, consumed |-> Len(feats)]
    ELSE LET point == Point2(feats[k], origin)
         IN  IF k = 1
             THEN ScanColumn(feats, k + 1, point, second_point, 1, origin)
             ELSE IF k = 2
             THEN ScanColumn(feats, k + 1, first_point, point, 2, origin)
             ELSE LET cos == _dot_product(first_point, second_point, point)
                  IN  IF cos.raised # "no"
                      THEN [raised |-> cos.raised, column_len |-> column_len,
                            consumed |-> k]
                      ELSE IF SameColumn(cos)
                      THEN ScanColumn(feats, k + 1, first_point, second_point,
                                      column_len + 1, origin)
                      ELSE [raised |-> "no", column_len |-> column_len,
                            consumed |-> k]

\* m[-1].append(point)
AppendToLastColumn(m, point) == [m EXCEPT ![Len(m)] = Append(@, point)]

\* elif i == column_len: i = 0   (the point is not stored)
LastPointOfColumn(m, point) == m

\* The second loop of _get_matrix from feature k (1-based) on, i being the
\* counter before the feature is read.
RECURSIVE SplitLoop(_, _, _, _, _, _)
SplitLoop(feats, k, i, m, column_len, origin) ==
    IF k > Len(feats) THEN m
    ELSE LET point == Point4(feats[k], origin)
         IN  IF i + 1 = 1
             THEN SplitLoop(feats, k + 1, 1, Append(m, <<point>>), column_len, origin)
             ELSE IF i + 1 = column_len
             THEN SplitLoop(feats, k + 1, 0, LastPointOfColumn(m, point),
                            column_len, origin)
             ELSE SplitLoop(feats, k + 1, i + 1, AppendToLastColumn(m, point),
                            column_len, origin)

\* list(map(list, zip(*m))): as many rows as the shortest column has entries
Transpose(m) ==
    IF m = <<>> THEN <<>>
    ELSE [r \in 1..Min({Len(m[c]) : c \in 1..Len(m)}) |->
             [c \in 1..Len(m) |-> m[c][r]]]

\* Where the second "for f in features" starts: a list starts again at its
\* first element, a one-shot iterator goes on after what the first loop took.
SecondLoopStart(consumed, one_shot) == IF one_shot THEN consumed + 1 ELSE 1

_get_matrix(feats, origin, one_shot) ==
    LET scan == ScanColumn(feats, 1, <<>>, <<>>, 0, origin)
    IN  IF scan.raised # "no"
        THEN [raised |-> scan.raised, matrix |-> <<>>]
        ELSE [raised |-> "no",
              matrix |-> Transpose(
                  SplitLoop(feats, SecondLoopStart(scan.consumed, one_shot), 0,
                            <<>>, scan.column_len, origin))]

(***************************************************************************)
(* The streams: n samples in physical columns of L samples, column c at    *)
(* x = c * sx, sample r of it at y = r * sy + c * skew; with dup the       *)
(* second point coincides with the first.  Sample k has elevation k, so    *)
(* that samples are told apart.                                            *)
(***************************************************************************)
StreamOf(n, L, sx, sy, skew, dup, origin) ==
    [q \in 1..n |->
        LET k == q - 1
            c == k \div L
            r == IF dup /\ k = 1 THEN 0 ELSE k % L
        IN  << c * sx + origin[1], r * sy + c * skew + origin[2], k,
               IF k % 3 = 2 THEN None ELSE << k % 2 >> >>]

\* column-major flattening of a grid, as features of a layer at the origin
Flatten(g, origin) ==
    IF g = <<>> THEN <<>>
    ELSE LET R == Len(g)
             C == Len(g[1])
         IN  [q \in 1..(R * C) |->
                 LET s == g[((q - 1) % R) + 1][((q - 1) \div R) + 1]
                 IN  << s[1] + origin[1], s[2] + origin[2], s[3], << s[4] >> >>]

InitMatrix ==
    /\ utm_origin \in Origins
    /\ \E n \in 0..MaxSamples, L \in 1..MaxColLen, dup \in BOOLEAN :
          \E sx \in 1..MaxSpacing, sy \in 1..MaxSpacing, skew \in 0..MaxSkew :
              layer = StreamOf(n, L, sx, sy, skew, dup, utm_origin)
    /\ oneShot \in BOOLEAN
    /\ matrix = <<>>
    /\ grid0 = <<>>
    /\ canceled = FALSE
    /\ pc = "call"
    /\ faces = <<>>
    /\ landuses = <<>>
    /\ landuses_set = {}
    /\ verts = <<>>
    /\ result = "pending"
    /\ log = <<>>

\* matrix = _get_matrix(layer, utm_origin), first on the stream, then on the
\* re-serialized grid
MatrixCall ==
    /\ pc \in {"call", "recall"}
    /\ LET out == _get_matrix(layer, utm_origin, oneShot)
       IN  /\ matrix' = out.matrix
           /\ result' = IF out.raised = "no" THEN "returned" ELSE out.raised
    /\ pc' = IF pc = "call" THEN "called" ELSE "done"
    /\ UNCHANGED <<layer, utm_origin, oneShot, canceled, grid0, faces,
                   landuses, landuses_set, verts, log>>

\* the grid returned is written back as a flat column-major layer
Reserialize ==
    /\ pc = "called"
    /\ result = "returned"
    /\ grid0' = matrix
    /\ layer' = Flatten(matrix, utm_origin)
    /\ pc' = "recall"
    /\ UNCHANGED <<utm_origin, oneShot, canceled, matrix, faces, landuses,
                   landuses_set, verts, result, log>>

NextMatrix == MatrixCall \/ Reserialize

SpecMatrix == InitMatrix /\ [][NextMatrix]_vars

\* what the first loop of _get_matrix infers from the layer
Scan == ScanColumn(layer, 1, <<>>, <<>>, 0, utm_origin)

\* the layer is K >= 2 columns of L >= 2 samples, and the (L+1)-th point ended
\* the first column: column_len = L
WholeColumns ==
    /\ Len(layer) >= 4
    /\ Scan.raised = "no"
    /\ Scan.column_len >= 2
    /\ Scan.consumed = Scan.column_len + 1
    /\ Len(layer) % Scan.column_len = 0

\* C4: a stream of K columns of L samples is cut into K chunks of exactly L
\* samples: the grid has L rows and K columns, grid[r][c] is the sample at
\* 0-based stream position c*L + r, and every sample is in the grid once.
C4_ChunksOfColumnLen ==
    (pc = "called" /\ WholeColumns) =>
        LET L == Scan.column_len
            K == Len(layer) \div L
        IN  /\ result = "returned"
            /\ Len(matrix) = L
            /\ \A r \in 1..Len(matrix) :
                  /\ Len(matrix[r]) = K
                  /\ \A c \in 1..Len(matrix[r]) :
                        matrix[r][c] = Point4(layer[(c - 1) * L + r], utm_origin)

\* the reference points are degenerate: fewer than 2 points, or the first two
\* points coincide
DegenerateReference ==
    \/ Len(layer) < 2
    \/ Point2(layer[1], utm_origin) = Point2(layer[2], utm_origin)

\* C6: with degenerate reference points _get_matrix raises a malformed-input
\* error of its own: it returns no grid and lets no ZeroDivisionError out.
C6_DegenerateRejected ==
    (pc = "called" /\ DegenerateReference) =>
        /\ result # "returned"
        /\ result # "ZeroDivisionError"

\* the layer does not divide into columns of the inferred column_len
RaggedColumns ==
    /\ Scan.raised = "no"
    /\ Scan.column_len >= 2
    /\ Scan.consumed = Scan.column_len + 1
    /\ Len(layer) % Scan.column_len # 0

\* C7: a stream whose length is no multiple of column_len is rejected with an
\* error; no grid is returned.
C7_RaggedRejected ==
    (pc = "called" /\ RaggedColumns) => result # "returned"

\* C8: a grid of at least 2 rows and 2 columns returned by _get_matrix,
\* flattened column-major and given to _get_matrix again with the same
\* origin, comes back the same.
C8_RoundTrip ==
    (pc = "done" /\ Len(grid0) >= 2 /\ Len(grid0[1]) >= 2) =>
        /\ result = "returned"
        /\ matrix = grid0

(***************************************************************************)
(* get_geometry: the three stages, the notifications to feedback and the   *)
(* polls of the cancellation flag.  Every call received by feedback is     *)
(* appended to log; a poll is logged with the value it returned.           *)
(***************************************************************************)
Notify8 == << "setCurrentStep(8)", "pushInfo(building the point matrix)" >>

Notify9 == << "setCurrentStep(9)", "pushInfo(getting quad faces)" >>

Notify10 == << "setCurrentStep(10)", "pushInfo(getting verts)" >>

Notify11 == << "setCurrentStep(11)" >>

PolledAs(flag) == IF flag THEN "isCanceled=True" ELSE "isCanceled=False"

\* set(landuses)
SetOf(l) == { l[k] : k \in 1..Len(l) }

Init ==
    /\ utm_origin \in Origins
    /\ \E n \in 0..MaxSamples, L \in 1..MaxColLen, dup \in BOOLEAN :
          \E sx \in 1..MaxSpacing, sy \in 1..MaxSpacing, skew \in 0..MaxSkew :
              layer = StreamOf(n, L, sx, sy, skew, dup, utm_origin)
    /\ oneShot \in BOOLEAN
    /\ canceled = FALSE
    /\ pc = "step8"
    /\ matrix = <<>>
    /\ grid0 = <<>>
    /\ faces = <<>>
    /\ landuses = <<>>
    /\ landuses_set = {}
    /\ verts = <<>>
    /\ result = "pending"
    /\ log = <<>>

\* lines 23-25
Reshape ==
    /\ pc = "step8"
    /\ log' = log \o Notify8
    /\ LET out == _get_matrix(layer, utm_origin, oneShot)
       IN  /\ matrix' = out.matrix
           /\ grid0' = out.matrix
           /\ result' = IF out.raised = "no" THEN result ELSE out.raised
           /\ pc' = IF out.raised = "no" THEN "poll1" ELSE "done"
    /\ UNCHANGED <<layer, utm_origin, oneShot, canceled, faces, landuses,
                   landuses_set, verts>>

\* a poll that goes on whatever the flag says
PollIgnoringFlag(at, next) ==
    /\ pc = at
    /\ log' = Append(log, PolledAs(canceled))
    /\ result' = result
    /\ pc' = next
    /\ UNCHANGED <<layer, utm_origin, oneShot, canceled, matrix, grid0, faces,
                   landuses, landuses_set, verts>>

\* if feedback.isCanceled(): return {}   at position at, going on at next
Poll(at, next) ==
    /\ pc = at
    /\ log' = Append(log, PolledAs(canceled))
    /\ result' = IF canceled THEN "{}" ELSE result
    /\ pc' = IF canceled THEN "done" ELSE next
    /\ UNCHANGED <<layer, utm_origin, oneShot, canceled, matrix, grid0, faces,
                   landuses, landuses_set, verts>>

\* lines 26-27
Poll1 == Poll("poll1", "step9")

\* lines 28-30
BuildFaces ==
    /\ pc = "step9"
    /\ log' = log \o Notify9
    /\ LET out == _get_faces(matrix)
       IN  /\ faces' = out.faces
           /\ landuses' = out.landuses
           /\ result' = IF out.raised = "no" THEN result ELSE out.raised
           /\ pc' = IF out.raised = "no" THEN "poll2" ELSE "done"
    /\ UNCHANGED <<layer, utm_origin, oneShot, canceled, matrix, grid0,
                   landuses_set, verts>>

\* lines 31-32
Poll2 == Poll("poll2", "step10")

\* lines 33-38
BuildVerts ==
    /\ pc = "step10"
    /\ landuses_set' = SetOf(landuses)
    /\ LET out == _get_verts(matrix)
       IN  /\ verts' = out.verts
           /\ matrix' = out.matrix
           /\ log' = IF out.raised = "no" THEN log \o Notify10 \o Notify11
                                           ELSE log \o Notify10
           /\ result' = IF out.raised = "no" THEN "tuple" ELSE out.raised
    /\ pc' = "done"
    /\ UNCHANGED <<layer, utm_origin, oneShot, canceled, grid0, faces, landuses>>

\* the host sets the cancellation flag, at any moment
Cancel ==
    /\ ~canceled
    /\ canceled' = TRUE
    /\ UNCHANGED <<layer, utm_origin, oneShot, pc, matrix, grid0, faces,
                   landuses, landuses_set, verts, result, log>>

Next == Reshape \/ Poll1 \/ BuildFaces \/ Poll2 \/ BuildVerts \/ Cancel

Spec == Init /\ [][Next]_vars

\* C2: for a grid of R >= 2 rows and C >= 2 columns taken through
\* get_geometry without cancellation, every vertex index of every face lies
\* in [1, (R+1)*(C+1)] and (R+1)*(C+1) is the number of vertices returned.
C2_FacesIndexVerts ==
    (pc = "done" /\ result = "tuple" /\ Len(grid0) >= 2 /\ Len(grid0[1]) >= 2) =>
        LET R == Len(grid0)
            C == Len(grid0[1])
        IN  /\ Len(verts) = (R + 1) * (C + 1)
            /\ Len(faces) = 2 * R * C
            /\ \A f \in 1..Len(faces) : \A k \in 1..3 :
                  /\ faces[f][k] >= 1
                  /\ faces[f][k] <= (R + 1) * (C + 1)
                  /\ faces[f][k] <= Len(verts)

C2_Witness ==
    /\ pc = "done"
    /\ result = "tuple"
    /\ ~canceled
    /\ Len(grid0) = 2
    /\ Len(grid0[1]) = 3
    /\ Len(verts) = 12
    /\ \E f \in 1..Len(faces) : faces[f][1] = 12

\* the calls feedback receives in a run that is neither cancelled nor broken
\* by an exception
FullLog ==
    Notify8 \o <<"isCanceled=False">> \o Notify9 \o <<"isCanceled=False">>
    \o Notify10 \o Notify11

IsPrefix(a, b) == Len(a) <= Len(b) /\ a = SubSeq(b, 1, Len(a))

\* a poll of the log that found the flag set, if any
CanceledPolls == { k \in 1..Len(log) : log[k] = "isCanceled=True" }

\* log with every poll that found the flag set read as one that did not
Uncanceled(l) ==
    [k \in 1..Len(l) |-> IF l[k] = "isCanceled=True" THEN "isCanceled=False" ELSE l[k]]

\* C10: the stages start in the order 8, 9, 10 (11 on completion) and the flag
\* is polled once after the reshape and once after the face build, nowhere
\* else; a poll that finds the flag set ends get_geometry with {} before any
\* later stage or notification; a flag set after the second poll changes
\* nothing and the tuple (verts, faces, landuses, landuses_set) is returned.
C10_StagesAndPolls ==
    /\ IsPrefix(Uncanceled(log), FullLog)
    /\ \A k \in CanceledPolls :
          /\ k = Len(log)
          /\ pc = "done"
          /\ result = "{}"
          /\ verts = <<>>
          /\ (k = Len(Notify8) + 1) => faces = <<>>
    /\ (result = "{}") => CanceledPolls # {}
    /\ (result = "tuple") => (pc = "done" /\ log = FullLog)
    /\ (pc = "done" /\ log = FullLog) =>
          /\ result = "tuple"
          /\ landuses_set = SetOf(landuses)
          /\ Len(landuses) = Len(faces)
    /\ (pc \in {"step8", "poll1", "step9", "poll2", "step10"}) => result = "pending"

C10_Witness ==
    /\ pc = "done"
    /\ result = "tuple"
    /\ canceled
    /\ log = FullLog
    /\ Len(verts) = 9

====
